---- MODULE Spec2Model ----
(***************************************************************************)
(* Model of apigateway-audit.py: the ApiGatewayAuditor class (audit,       *)
(* parse_resource, print_audits) and the main() entry point that drives    *)
(* it.  Python dictionaries are TLA+ records (a key is present iff it is   *)
(* in the record's DOMAIN), Python lists are sequences, and Python's None  *)
(* is the record None below.                                               *)
(***************************************************************************)
EXTENDS Integers, Sequences, FiniteSets, TLC

VARIABLES
    pc,          \* position of the run: start, audit, outer, get_resources, inner, print, done, failed
    methods,     \* self.methods: None or PyList(<<verb, ...>>)
    format,      \* self.format
    items,       \* audit(): response['items']
    i,           \* audit(): number of entries of items the outer for loop has consumed
    item,        \* audit(): the loop variable 'item', shared by the outer and the inner loop
    d,           \* audit(): the ApiAudit dict under construction
    rescItems,   \* audit(): rescResp['items']
    j,           \* audit(): number of entries of rescItems the inner for loop has consumed
    resources,   \* audit(): the list 'resources'
    res_dict,    \* audit(): the last value returned by parse_resource
    api_audits,  \* the report: audit()'s list, then print_audits' argument
    out,         \* the lines print() has written to stdout
    failure,     \* the exception that ended the run, or NoFailure
    calls        \* the collaborator calls made so far, in order

vars == <<pc, methods, format, items, i, item, d, rescItems, j, resources,
          res_dict, api_audits, out, failure, calls>>

(***************************************************************************)
(* Bounds of the model.                                                    *)
(***************************************************************************)
MaxApis == 2
MaxResources == 2
MaxMethods == 2
MaxFilterLen == 2

(***************************************************************************)
(* Python values.                                                          *)
(***************************************************************************)
None == [none |-> TRUE]
PyList(s) == [list |-> s]
NoFailure == "none"

RECURSIVE SeqsUpTo(_, _)
SeqsUpTo(S, n) ==
    IF n = 0 THEN {<<>>}
    ELSE LET shorter == SeqsUpTo(S, n - 1)
         IN  shorter \cup {Append(s, x) : s \in {t \in shorter : Len(t) = n - 1}, x \in S}

(***************************************************************************)
(* What the collaborator (boto3's apigateway client) can return.           *)
(***************************************************************************)
ApiSummaries ==
    { [id |-> "a1", name |-> "Shop", endpointConfiguration |-> [types |-> <<"REGIONAL">>]],
      [id |-> "a2", name |-> "Pay",  endpointConfiguration |-> [types |-> <<"EDGE", "PRIVATE">>]] }

ApiLists == SeqsUpTo(ApiSummaries, MaxApis)

\* The values a resourceMethods mapping can hold: every combination of a verb,
\* an authorization type and an API-key flag, each of them possibly missing.
MethodEntries ==
    { [k \in ks |-> CASE k = "httpMethod" -> v
                      [] k = "authorizationType" -> a
                      [] k = "apiKeyRequired" -> r] :
        ks \in SUBSET {"httpMethod", "authorizationType", "apiKeyRequired"} \ {{}},
        v \in {"GET", "POST"}, a \in {"NONE", "AWS_IAM"}, r \in BOOLEAN }

\* resourceMethods.items() in the mapping's order (the code never reads the keys)
MethodMaps == SeqsUpTo(MethodEntries, MaxMethods)

\* A raw resource: 'resourceMethods' is omitted when the resource has no methods.
RawResources ==
    { [path |-> "/items"] } \cup
    { [path |-> "/items", resourceMethods |-> m] : m \in MethodMaps }

GetOpen == [httpMethod |-> "GET", authorizationType |-> "NONE", apiKeyRequired |-> FALSE]
PostIam == [httpMethod |-> "POST", authorizationType |-> "AWS_IAM", apiKeyRequired |-> TRUE]

\* The resources get_resources returns in a whole run: one without methods,
\* a well-formed one and one with a malformed GET entry.
RunResources ==
    { [path |-> "/health"],
      [path |-> "/items", resourceMethods |-> <<GetOpen, PostIam>>],
      [path |-> "/orders", resourceMethods |->
          <<PostIam, [httpMethod |-> "GET", apiKeyRequired |-> FALSE]>>] }

ResourceLists == SeqsUpTo(RunResources, MaxResources)

(***************************************************************************)
(* What the caller can configure.  main() takes --methods (nargs='+': not  *)
(* given, or at least one verb) and --format (choices json, json-pretty,   *)
(* csv); the class constructor takes any value for either.                 *)
(***************************************************************************)
FilterVerbs == {"GET", "get"}
NotGiven == "<not given>"
Choices == {"json", "json-pretty", "csv"}
Formats == Choices \cup {"xml"}
Filters == {None} \cup {PyList(s) : s \in SeqsUpTo(FilterVerbs, MaxFilterLen)}
RunFilters == {None, PyList(<<>>), PyList(<<"POST">>)}
CliFilters == {f \in RunFilters : f = None \/ f.list # <<>>}

(***************************************************************************)
(* parse_resource and its parts.                                           *)
(***************************************************************************)
InList(x, s) == \E k \in 1..Len(s) : s[k] = x

\* Passes with the comparison made case-insensitive
Upper(v) == IF v = "get" THEN "GET" ELSE IF v = "post" THEN "POST" ELSE v
Passes_IgnoreCase(method, self_methods) ==
    self_methods = None
    \/ \E k \in 1..Len(self_methods.list) : Upper(self_methods.list[k]) = Upper(method)

\* Passes without the test for an unset filter
Passes_NoneExcludes(method, self_methods) ==
    self_methods # None /\ InList(method, self_methods.list)

\* line 91: self.methods is None or method in self.methods
Passes(method, self_methods) ==
    self_methods = None \/ InList(method, self_methods.list)

KeyError(key) == [raised |-> TRUE, key |-> key]

\* ParseEntry with dict.get() in place of the lookups: nothing is raised, an
\* entry without a verb is skipped and a missing attribute becomes "None"
ParseEntry_Lenient(value, self_methods) ==
    IF "httpMethod" \notin DOMAIN value THEN [raised |-> FALSE, include |-> FALSE]
    ELSE IF ~(self_methods = None \/ InList(value.httpMethod, self_methods.list))
         THEN [raised |-> FALSE, include |-> FALSE]
    ELSE [raised |-> FALSE, include |-> TRUE,
          d |-> [method |-> value.httpMethod,
                 authorization_type |->
                     IF "authorizationType" \in DOMAIN value
                     THEN value.authorizationType ELSE "None",
                 api_key_required |->
                     IF "apiKeyRequired" \in DOMAIN value
                     THEN value.apiKeyRequired ELSE FALSE]]

\* lines 90-95: one iteration of the loop over resourceMethods.items().
\* A lookup of a missing key raises KeyError; an entry whose verb does not
\* pass the filter is skipped before its other attributes are looked up.
ParseEntry(value, self_methods) ==
    IF "httpMethod" \notin DOMAIN value THEN KeyError("httpMethod")
    ELSE IF ~Passes(value.httpMethod, self_methods)
         THEN [raised |-> FALSE, include |-> FALSE]
    ELSE IF "authorizationType" \notin DOMAIN value THEN KeyError("authorizationType")
    ELSE IF "apiKeyRequired" \notin DOMAIN value THEN KeyError("apiKeyRequired")
    ELSE [raised |-> FALSE, include |-> TRUE,
          d |-> [method |-> value.httpMethod,
                 authorization_type |-> value.authorizationType,
                 api_key_required |-> value.apiKeyRequired]]

\* lines 89-95: the loop, from entry k on, with the list 'methods' so far in acc.
RECURSIVE ParseMethods(_, _, _, _)
ParseMethods(values, k, self_methods, acc) ==
    IF k > Len(values) THEN [raised |-> FALSE, methods |-> acc]
    ELSE LET e == ParseEntry(values[k], self_methods)
         IN  IF e.raised THEN e
             ELSE ParseMethods(values, k + 1, self_methods,
                               IF e.include THEN Append(acc, e.d) ELSE acc)

\* MakeResult without the test for an empty list
MakeResult_Always(path, ms) == [path |-> path, methods |-> ms]

\* lines 96-98: a Resource only when the list is not empty
MakeResult(path, ms) ==
    IF ms # <<>> THEN [path |-> path, methods |-> ms] ELSE None

\* lines 83-98
parse_resource(resource, self_methods) ==
    LET path == resource.path
        r == IF "resourceMethods" \in DOMAIN resource
             THEN ParseMethods(resource.resourceMethods, 1, self_methods, <<>>)
             ELSE [raised |-> FALSE, methods |-> <<>>]
    IN  IF r.raised THEN r
        ELSE [raised |-> FALSE, result |-> MakeResult(path, r.methods)]

(***************************************************************************)
(* audit's parts.                                                          *)
(***************************************************************************)
\* lines 68-71: d = {'api_id':..., 'name':..., 'endpoint_type':...}
NewAudit(api) ==
    [api_id |-> api.id, name |-> api.name,
     endpoint_type |-> api.endpointConfiguration.types]

\* AttachResources without the test for an empty list
AttachResources_Always(audit, rs) ==
    [k \in DOMAIN audit \cup {"resources"} |->
        IF k = "resources" THEN rs ELSE audit[k]]

\* lines 78-79: if resources: d['resources'] = resources
AttachResources(audit, rs) ==
    IF rs # <<>>
    THEN [k \in DOMAIN audit \cup {"resources"} |->
             IF k = "resources" THEN rs ELSE audit[k]]
    ELSE audit

\* AppendAudit that merges an API already in the report
AppendAudit_Dedup(audits, audit) ==
    IF \E k \in 1..Len(audits) : audits[k].api_id = audit.api_id
    THEN audits ELSE Append(audits, audit)

\* line 80: api_audits.append(d)
AppendAudit(audits, audit) == Append(audits, audit)

(***************************************************************************)
(* print_audits' parts.  str() of a bool and of a list of strings, as the  *)
(* f-string of line 110 renders them.                                      *)
(***************************************************************************)
PyStrBool(b) == IF b THEN "True" ELSE "False"

RECURSIVE PyJoinRepr(_, _)
PyJoinRepr(s, k) ==
    IF k > Len(s) THEN ""
    ELSE (IF k > 1 THEN ", " ELSE "") \o "'" \o s[k] \o "'" \o PyJoinRepr(s, k + 1)

PyStrList(s) == "[" \o PyJoinRepr(s, 1) \o "]"

\* line 110
CsvLine(api, resource, method) ==
    api.name \o "," \o api.api_id \o "," \o PyStrList(api.endpoint_type) \o ","
    \o resource.path \o "," \o method.method \o "," \o method.authorization_type
    \o "," \o PyStrBool(method.api_key_required)

\* ResourceLines that prints the first method only
ResourceLines_FirstOnly(api, resource) ==
    IF resource.methods # <<>>
    THEN <<CsvLine(api, resource, resource.methods[1])>>
    ELSE <<>>

\* lines 108-110: the lines of one resource
ResourceLines(api, resource) ==
    IF resource.methods # <<>>
    THEN [k \in 1..Len(resource.methods) |-> CsvLine(api, resource, resource.methods[k])]
    ELSE <<>>

RECURSIVE ResourcesLines(_, _, _)
ResourcesLines(api, rs, k) ==
    IF k > Len(rs) THEN <<>>
    ELSE ResourceLines(api, rs[k]) \o ResourcesLines(api, rs, k + 1)

\* ApiLines that skips an API without resources
ApiLines_Skip(api) ==
    IF "resources" \notin DOMAIN api THEN [raised |-> FALSE, lines |-> <<>>]
    ELSE [raised |-> FALSE, lines |-> ResourcesLines(api, api.resources, 1)]

\* lines 107-110: api['resources'] raises KeyError when the key is missing
ApiLines(api) ==
    IF "resources" \notin DOMAIN api THEN KeyError("resources")
    ELSE [raised |-> FALSE, lines |-> ResourcesLines(api, api.resources, 1)]

\* lines 106-110: the lines printed from API k on, after those in printed;
\* the run stops at the first KeyError with what has been printed so far.
RECURSIVE PrintCsv(_, _, _)
PrintCsv(audits, k, printed) ==
    IF k > Len(audits) THEN [raised |-> FALSE, out |-> printed]
    ELSE LET a == ApiLines(audits[k])
         IN  IF a.raised THEN [raised |-> TRUE, key |-> a.key, out |-> printed]
             ELSE PrintCsv(audits, k + 1, printed \o a.lines)

\* lines 102 and 104: json.dumps writes the whole report as one document.  No
\* property below reads inside the document, so it is kept as the value dumped
\* and the two arguments that tell the modes apart.
JsonDumps(audits, pretty) ==
    [json |-> audits, indent |-> IF pretty THEN "4" ELSE "None", sort_keys |-> pretty]

(***************************************************************************)
(* The run.                                                                *)
(***************************************************************************)
Init ==
    /\ pc = "start"
    /\ methods = None
    /\ format = NotGiven
    /\ items = <<>>
    /\ i = 0
    /\ item = None
    /\ d = None
    /\ rescItems = <<>>
    /\ j = 0
    /\ resources = <<>>
    /\ res_dict = None
    /\ api_audits = <<>>
    /\ out = <<>>
    /\ failure = NoFailure
    /\ calls = <<>>

\* lines 23-39: the command line.  argparse exits on a --format outside its
\* choices (format then records the value that was refused); --format not
\* given becomes "json"; then the auditor is constructed.
main ==
    /\ pc = "start"
    /\ \E m \in CliFilters, f \in Formats \cup {NotGiven} :
          IF f \notin Choices \cup {NotGiven}
          THEN /\ pc' = "failed"
               /\ failure' = "SystemExit"
               /\ format' = f
               /\ UNCHANGED methods
          ELSE /\ pc' = "audit"
               /\ methods' = m
               /\ format' = IF f = NotGiven THEN "json" ELSE f
               /\ UNCHANGED failure
    /\ UNCHANGED <<items, i, item, d, rescItems, j, resources, res_dict,
                   api_audits, out, calls>>

\* lines 45-59: the constructor called by other code, which stores whatever
\* methods and format it is given.
Construct ==
    /\ pc = "start"
    /\ \E m \in RunFilters, f \in Formats :
          /\ methods' = m
          /\ format' = f
    /\ pc' = "audit"
    /\ UNCHANGED <<items, i, item, d, rescItems, j, resources, res_dict,
                   api_audits, out, failure, calls>>

\* lines 62-64: get_rest_apis returns the APIs, or raises
GetRestApis ==
    /\ pc = "audit"
    /\ calls' = Append(calls, "get_rest_apis")
    /\ \/ /\ pc' = "failed"
          /\ failure' = "ClientError"
          /\ UNCHANGED <<items, api_audits, i>>
       \/ /\ \E resp \in ApiLists : items' = resp
          /\ api_audits' = <<>>
          /\ i' = 0
          /\ pc' = "outer"
          /\ UNCHANGED failure
    /\ UNCHANGED <<methods, format, item, d, rescItems, j, resources, res_dict, out>>

\* lines 67-71: the outer loop takes the next API and starts its ApiAudit
NextApi ==
    /\ pc = "outer"
    /\ i < Len(items)
    /\ i' = i + 1
    /\ item' = items[i + 1]
    /\ d' = NewAudit(item')
    /\ pc' = "get_resources"
    /\ UNCHANGED <<methods, format, items, rescItems, j, resources, res_dict,
                   api_audits, out, failure, calls>>

\* lines 72-74 and 80: get_resources returns the API's resources, or raises;
\* with no resources the ApiAudit is appended as it is.
GetResources ==
    /\ pc = "get_resources"
    /\ calls' = Append(calls, "get_resources:" \o d.api_id)
    /\ \/ /\ pc' = "failed"
          /\ failure' = "ClientError"
          /\ UNCHANGED <<rescItems, resources, j, api_audits>>
       \/ \E resp \in ResourceLists :
             /\ rescItems' = resp
             /\ IF resp # <<>>
                THEN /\ resources' = <<>>
                     /\ j' = 0
                     /\ pc' = "inner"
                     /\ UNCHANGED api_audits
                ELSE /\ api_audits' = AppendAudit(api_audits, d)
                     /\ pc' = "outer"
                     /\ UNCHANGED <<resources, j>>
             /\ UNCHANGED failure
    /\ UNCHANGED <<methods, format, items, i, item, d, res_dict, out>>

\* lines 75-77: the inner loop rebinds 'item' to the next raw resource, parses
\* it and keeps the result unless it is None; a KeyError ends the run.
ParseNext ==
    /\ pc = "inner"
    /\ j < Len(rescItems)
    /\ j' = j + 1
    /\ item' = rescItems[j + 1]
    /\ LET r == parse_resource(item', methods)
       IN  IF r.raised
           THEN /\ pc' = "failed"
                /\ failure' = "KeyError:" \o r.key
                /\ UNCHANGED <<res_dict, resources>>
           ELSE /\ res_dict' = r.result
                /\ resources' = IF r.result # None THEN Append(resources, r.result)
                                ELSE resources
                /\ UNCHANGED <<pc, failure>>
    /\ UNCHANGED <<methods, format, items, i, d, rescItems, api_audits, out, calls>>

\* lines 78-80: after the last resource
EndResources ==
    /\ pc = "inner"
    /\ j = Len(rescItems)
    /\ d' = AttachResources(d, resources)
    /\ api_audits' = AppendAudit(api_audits, d')
    /\ pc' = "outer"
    /\ UNCHANGED <<methods, format, items, i, item, rescItems, j, resources,
                   res_dict, out, failure, calls>>

\* line 81 and line 40: audit returns the report; its locals are gone
AuditReturn ==
    /\ pc = "outer"
    /\ i = Len(items)
    /\ pc' = "print"
    /\ items' = <<>>
    /\ i' = 0
    /\ item' = None
    /\ d' = None
    /\ rescItems' = <<>>
    /\ j' = 0
    /\ resources' = <<>>
    /\ res_dict' = None
    /\ UNCHANGED <<methods, format, api_audits, out, failure, calls>>

\* lines 101-102
PrintJsonPretty ==
    /\ pc = "print"
    /\ format = "json-pretty"
    /\ out' = <<JsonDumps(api_audits, TRUE)>>
    /\ pc' = "done"
    /\ UNCHANGED <<methods, format, items, i, item, d, rescItems, j, resources,
                   res_dict, api_audits, failure, calls>>

\* lines 103-104
PrintJson ==
    /\ pc = "print"
    /\ format # "json-pretty"
    /\ format = "json"
    /\ out' = <<JsonDumps(api_audits, FALSE)>>
    /\ pc' = "done"
    /\ UNCHANGED <<methods, format, items, i, item, d, rescItems, j, resources,
                   res_dict, api_audits, failure, calls>>

\* lines 105-110: every other format takes the csv branch
PrintElse ==
    /\ pc = "print"
    /\ format # "json-pretty"
    /\ format # "json"
    /\ LET r == PrintCsv(api_audits, 1, <<>>)
       IN  /\ out' = r.out
           /\ IF r.raised
              THEN pc' = "failed" /\ failure' = "KeyError:" \o r.key
              ELSE pc' = "done" /\ UNCHANGED failure
    /\ UNCHANGED <<methods, format, items, i, item, d, rescItems, j, resources,
                   res_dict, api_audits, calls>>

Next ==
    \/ main
    \/ Construct
    \/ GetRestApis
    \/ NextApi
    \/ GetResources
    \/ ParseNext
    \/ EndResources
    \/ AuditReturn
    \/ PrintJsonPretty
    \/ PrintJson
    \/ PrintElse

Spec == Init /\ [][Next]_vars

(***************************************************************************)
(* audit() at one resource: the state after get_resources has returned a   *)
(* single resource for the only API, for every resource and every filter,  *)
(* followed by the inner loop and the return.                              *)
(***************************************************************************)
InitResource ==
    /\ pc = "inner"
    /\ methods \in Filters
    /\ format = "json"
    /\ \E api \in ApiSummaries :
          /\ items = <<api>>
          /\ item = api
          /\ d = NewAudit(api)
          /\ calls = <<"get_rest_apis", "get_resources:" \o api.id>>
    /\ i = 1
    /\ rescItems \in {<<r>> : r \in RawResources}
    /\ j = 0
    /\ resources = <<>>
    /\ res_dict = None
    /\ api_audits = <<>>
    /\ out = <<>>
    /\ failure = NoFailure

NextResource ==
    \/ ParseNext
    \/ EndResources
    \/ AuditReturn

SpecResource == InitResource /\ [][NextResource]_vars

(***************************************************************************)
(* Vocabulary of the properties.                                           *)
(***************************************************************************)
\* parse_resource has just returned normally: 'item' is the raw resource it
\* was given and res_dict is what it returned
LastParsed ==
    /\ pc \in {"inner", "outer"}
    /\ j >= 1
    /\ j <= Len(rescItems)
    /\ item = rescItems[j]

\* parse_resource has just raised on the raw resource 'item'
ParseRaised ==
    /\ pc = "failed"
    /\ failure \in {"KeyError:httpMethod", "KeyError:authorizationType",
                    "KeyError:apiKeyRequired"}

RawMethods(r) == IF "resourceMethods" \in DOMAIN r THEN r.resourceMethods ELSE <<>>
MethodsOf(res) == IF res = None THEN <<>> ELSE res.methods
FilterSet == IF methods = None THEN {} ELSE {methods.list[k] : k \in 1..Len(methods.list)}
WellFormed(e) == {"httpMethod", "authorizationType", "apiKeyRequired"} \subseteq DOMAIN e
AllWellFormed(r) == \A k \in 1..Len(RawMethods(r)) : WellFormed(r.resourceMethods[k])

\* the MethodSecurity ms carries the verb and the two attributes of the entry e
SameMethod(ms, e) ==
    /\ ms.method = e.httpMethod
    /\ ms.authorization_type = e.authorizationType
    /\ ms.api_key_required = e.apiKeyRequired

\* the method list ms is the sequence of entries kept, each with its attributes
IsRendering(ms, kept) ==
    /\ Len(ms) = Len(kept)
    /\ \A k \in 1..Len(kept) : SameMethod(ms[k], kept[k])

InFilter(e) == e.httpMethod \in FilterSet

HasResources(audit) == "resources" \in DOMAIN audit

\* every Resource of the report has a non-empty methods list
ReportResourcesNonEmpty ==
    \A a \in 1..Len(api_audits) :
        HasResources(api_audits[a]) =>
            \A r \in 1..Len(api_audits[a].resources) :
                api_audits[a].resources[r].methods # <<>>

(***************************************************************************)
(* C1: with a non-empty method filter, the method list parse_resource      *)
(* returns is exactly the subsequence of the resource's resourceMethods    *)
(* entries whose httpMethod is in the filter (compared as it is written),  *)
(* in the mapping's order, each with its own authorizationType and         *)
(* apiKeyRequired; None stands for the empty list.                         *)
(***************************************************************************)
C1_FilteredSubsequence ==
    (LastParsed /\ methods # None /\ methods.list # <<>>)
        => IsRendering(MethodsOf(res_dict), SelectSeq(RawMethods(item), InFilter))

\* a filter that keeps the second of two entries and not the first
C1_Witness ==
    /\ LastParsed
    /\ methods = PyList(<<"get", "GET">>)
    /\ Len(RawMethods(item)) = 2
    /\ item.resourceMethods[1].httpMethod = "POST"
    /\ res_dict # None
    /\ Len(res_dict.methods) = 1

(***************************************************************************)
(* C2 as stated: parse_resource returns None exactly when the resource has *)
(* no resourceMethods mapping, the mapping is empty, or the filter is      *)
(* non-empty and no entry's httpMethod is in it; and every Resource of the *)
(* report has a non-empty methods list.  (Stated for resources all of      *)
(* whose entries are well-formed.)                                         *)
(***************************************************************************)
C2_NoneIffNothingPassesNonEmptyFilter ==
    /\ (LastParsed /\ AllWellFormed(item)) =>
          (res_dict = None <=>
              \/ "resourceMethods" \notin DOMAIN item
              \/ item.resourceMethods = <<>>
              \/ /\ methods # None
                 /\ methods.list # <<>>
                 /\ SelectSeq(item.resourceMethods, InFilter) = <<>>)
    /\ ReportResourcesNonEmpty

(***************************************************************************)
(* C2 amended: parse_resource returns None exactly when the resource has   *)
(* no resourceMethods mapping, the mapping is empty, or the filter is set  *)
(* (an empty filter included) and no entry's httpMethod is in it; and      *)
(* every Resource of the report has a non-empty methods list.              *)
(***************************************************************************)
C2_NoneIffNothingPasses ==
    /\ LastParsed =>
          (res_dict = None <=>
              \/ "resourceMethods" \notin DOMAIN item
              \/ item.resourceMethods = <<>>
              \/ /\ methods # None
                 /\ SelectSeq(item.resourceMethods, InFilter) = <<>>)
    /\ ReportResourcesNonEmpty

\* a resource with methods, all of them filtered out, and its API in the report
C2_Witness ==
    /\ pc = "outer"
    /\ LastParsed
    /\ methods = PyList(<<"get">>)
    /\ Len(RawMethods(item)) = 2
    /\ res_dict = None
    /\ Len(api_audits) = 1

(***************************************************************************)
(* C6 as stated: when the method filter is unset or is empty, the method   *)
(* list parse_resource returns holds every entry of the resource's         *)
(* mapping, so a resource with a method is not dropped.  (Stated for       *)
(* resources all of whose entries are well-formed.)                        *)
(***************************************************************************)
C6_UnsetOrEmptyKeepsAll ==
    (LastParsed /\ AllWellFormed(item) /\ (methods = None \/ methods.list = <<>>))
        => /\ IsRendering(MethodsOf(res_dict), RawMethods(item))
           /\ (RawMethods(item) # <<>> => res_dict # None)

(***************************************************************************)
(* C6 amended: when the method filter is unset (None), the method list     *)
(* parse_resource returns holds every entry of the resource's mapping, so  *)
(* a resource with a method is not dropped; when the filter is an empty    *)
(* list no entry is kept and parse_resource returns None.                  *)
(***************************************************************************)
C6_UnsetKeepsAll ==
    /\ (LastParsed /\ methods = None)
          => /\ IsRendering(MethodsOf(res_dict), RawMethods(item))
             /\ (RawMethods(item) # <<>> => res_dict # None)
    /\ (LastParsed /\ methods = PyList(<<>>)) => res_dict = None

\* an unset filter and a resource with two methods, kept in the report
C6_Witness ==
    /\ pc = "outer"
    /\ LastParsed
    /\ methods = None
    /\ Len(RawMethods(item)) = 2
    /\ Len(api_audits) = 1
    /\ HasResources(api_audits[1])
    /\ Len(api_audits[1].resources[1].methods) = 2

(***************************************************************************)
(* C10 as stated: whatever the filter, parse_resource does not return      *)
(* normally from a resource one of whose method entries lacks httpMethod,  *)
(* authorizationType or apiKeyRequired.  (Stated for an unset or a         *)
(* non-empty filter.)                                                      *)
(***************************************************************************)
C10_MalformedAlwaysAborts ==
    (LastParsed /\ (methods = None \/ methods.list # <<>>)) => AllWellFormed(item)

(***************************************************************************)
(* C10 amended: audit() aborts with a KeyError and returns no report       *)
(* exactly when some method entry of a resource lacks httpMethod, or has   *)
(* an httpMethod that passes the filter (any, when the filter is unset)    *)
(* and lacks authorizationType or apiKeyRequired, all entries before it    *)
(* being free of that; the entries kept carry their own attributes.  An    *)
(* entry whose httpMethod the filter excludes is skipped whatever else it  *)
(* lacks.                                                                  *)
(***************************************************************************)
Offending(e) ==
    \/ "httpMethod" \notin DOMAIN e
    \/ /\ methods = None \/ e.httpMethod \in FilterSet
       /\ ~WellFormed(e)

Kept(e) == methods = None \/ e.httpMethod \in FilterSet

C10_OffendingEntryAborts ==
    /\ LastParsed =>
          /\ \A k \in 1..Len(RawMethods(item)) : ~Offending(item.resourceMethods[k])
          /\ IsRendering(MethodsOf(res_dict), SelectSeq(RawMethods(item), Kept))
    /\ ParseRaised =>
          /\ \E k \in 1..Len(RawMethods(item)) : Offending(item.resourceMethods[k])
          /\ api_audits = <<>>
          /\ out = <<>>

\* a set filter, and an entry that passes it without its authorizationType
C10_Witness ==
    /\ ParseRaised
    /\ failure = "KeyError:authorizationType"
    /\ methods = PyList(<<"GET">>)
    /\ Len(RawMethods(item)) = 2

(***************************************************************************)
(* C3: an ApiAudit has a 'resources' field exactly when at least one raw   *)
(* resource of its API yields a Resource (has an entry the filter keeps);  *)
(* the field is then the sequence of those Resources in the order          *)
(* get_resources returned them, and it is never an empty list.             *)
(***************************************************************************)
Qualifies(r) == SelectSeq(RawMethods(r), Kept) # <<>>

IsResourceOf(res, r) ==
    /\ res.path = r.path
    /\ IsRendering(res.methods, SelectSeq(RawMethods(r), Kept))

C3_ResourcesFieldIffQualifying ==
    /\ \A a \in 1..Len(api_audits) :
          HasResources(api_audits[a]) => api_audits[a].resources # <<>>
    /\ (pc = "outer" /\ api_audits # <<>>) =>
          LET last == api_audits[Len(api_audits)]
              q == SelectSeq(rescItems, Qualifies)
          IN  /\ HasResources(last) <=> q # <<>>
              /\ HasResources(last) =>
                    /\ Len(last.resources) = Len(q)
                    /\ \A k \in 1..Len(q) : IsResourceOf(last.resources[k], q[k])

\* an API whose resources have methods and are all dropped by the filter
C3_Witness ==
    /\ pc = "outer"
    /\ Len(api_audits) = 2
    /\ ~HasResources(api_audits[2])
    /\ Len(rescItems) = 2
    /\ \A k \in 1..2 : RawMethods(rescItems[k]) # <<>>

(***************************************************************************)
(* C4: the report holds one ApiAudit per API get_rest_apis returned, at    *)
(* the API's position and with its id, name and endpoint types, whether or *)
(* not it has resources and whether or not the API occurs twice; the       *)
(* ApiAudit under construction describes the API the outer loop is at, and *)
(* get_resources is called once per API, in the APIs' order, whatever the  *)
(* inner loop binds 'item' to.                                             *)
(***************************************************************************)
Describes(audit, api) ==
    /\ audit.api_id = api.id
    /\ audit.name = api.name
    /\ audit.endpoint_type = api.endpointConfiguration.types

C4_OneAuditPerApi ==
    /\ pc \in {"outer", "get_resources", "inner"} =>
          LET finished == IF pc = "outer" THEN i ELSE i - 1
              called == IF pc = "get_resources" THEN i - 1 ELSE i
          IN  /\ i <= Len(items)
              /\ Len(api_audits) = finished
              /\ \A k \in 1..finished : Describes(api_audits[k], items[k])
              /\ pc # "outer" => Describes(d, items[i])
              /\ Len(calls) = called + 1
              /\ \A k \in 1..called : calls[k + 1] = "get_resources:" \o items[k].id
    /\ pc \in {"print", "done"} =>
          /\ Len(api_audits) = Len(calls) - 1
          /\ \A k \in 1..Len(api_audits) :
                calls[k + 1] = "get_resources:" \o api_audits[k].api_id

\* the same API twice, the second time with no qualifying resource, after the
\* inner loop has bound 'item' to a raw resource
C4_Witness ==
    /\ pc = "outer"
    /\ Len(items) = 2
    /\ i = 2
    /\ items[1] = items[2]
    /\ "path" \in DOMAIN item
    /\ HasResources(api_audits[1])
    /\ ~HasResources(api_audits[2])

(***************************************************************************)
(* C5: when every ApiAudit of the report has a 'resources' field, csv      *)
(* rendering completes and prints exactly one line per (ApiAudit,          *)
(* Resource, MethodSecurity), in the report's order and nothing else: the  *)
(* line of method m of resource r of API a is preceded by as many lines as *)
(* there are methods before it, and there are as many lines as methods.    *)
(***************************************************************************)
RECURSIVE MethodsUpTo(_, _)
MethodsUpTo(rs, r) ==
    IF r = 0 THEN 0 ELSE MethodsUpTo(rs, r - 1) + Len(rs[r].methods)

RECURSIVE MethodsOfApis(_, _)
MethodsOfApis(audits, a) ==
    IF a = 0 THEN 0
    ELSE MethodsOfApis(audits, a - 1)
         + MethodsUpTo(audits[a].resources, Len(audits[a].resources))

C5_OneLinePerMethod ==
    (/\ format = "csv"
     /\ pc = "done" \/ (pc = "failed" /\ failure = "KeyError:resources")
     /\ \A a \in 1..Len(api_audits) : HasResources(api_audits[a]))
        => /\ pc = "done"
           /\ Len(out) = MethodsOfApis(api_audits, Len(api_audits))
           /\ \A a \in 1..Len(api_audits) :
                 \A r \in 1..Len(api_audits[a].resources) :
                    \A m \in 1..Len(api_audits[a].resources[r].methods) :
                       out[MethodsOfApis(api_audits, a - 1)
                           + MethodsUpTo(api_audits[a].resources, r - 1) + m]
                         = CsvLine(api_audits[a], api_audits[a].resources[r],
                                   api_audits[a].resources[r].methods[m])

\* two APIs, the first with two resources of two methods each
C5_Witness ==
    /\ pc = "done"
    /\ format = "csv"
    /\ Len(api_audits) = 2
    /\ HasResources(api_audits[1])
    /\ Len(api_audits[1].resources) = 2
    /\ Len(out) >= 5
    /\ out[1] = "Shop,a1,['REGIONAL'],/items,GET,NONE,False"
    /\ out[2] = "Shop,a1,['REGIONAL'],/items,POST,AWS_IAM,True"

(***************************************************************************)
(* C7: csv rendering of a report with an ApiAudit that has no 'resources'  *)
(* field never completes: it ends with the KeyError of the lookup of       *)
(* 'resources'.                                                            *)
(***************************************************************************)
C7_MissingResourcesIsFatal ==
    /\ (pc = "done" /\ format = "csv")
          => \A a \in 1..Len(api_audits) : HasResources(api_audits[a])
    /\ (pc = "failed" /\ failure = "KeyError:resources")
          => \E a \in 1..Len(api_audits) : ~HasResources(api_audits[a])

\* csv rendering ended by the KeyError at the second API
C7_Witness ==
    /\ pc = "failed"
    /\ failure = "KeyError:resources"
    /\ format = "csv"
    /\ Len(api_audits) = 2
    /\ HasResources(api_audits[1])
    /\ ~HasResources(api_audits[2])

(***************************************************************************)
(* C8 as stated: a run that ends with a failure has printed nothing.       *)
(***************************************************************************)
C8_NoPartialOutput == pc = "failed" => out = <<>>

(***************************************************************************)
(* C9 as stated: an auditor with a format other than json, json-pretty and *)
(* csv makes no collaborator call and prints nothing.                      *)
(***************************************************************************)
C9_UnrecognizedFormatFailsFirst ==
    (format \notin Choices /\ format # NotGiven) => (calls = <<>> /\ out = <<>>)

====
